---- MODULE Spec2Model ----
(***************************************************************************)
(* BizPulse Auto Data Cleaner: the cleaning pipeline of src/app.py as a    *)
(* state machine.  One run loads an uploaded CSV (line 40) and then passes *)
(* through the stages of the module body in program order; every stage is  *)
(* one action.  The Type Corrector's for-loop is one action per column.    *)
(*                                                                         *)
(* Numbers are held doubled (field n = 2 * value) so that the median of an  *)
(* even number of integers stays an integer; z-scores are scale invariant. *)
(* The variables attempts and log record what the code did (the parse      *)
(* attempts on the last column, the stages finished in this run); the code *)
(* itself keeps neither.                                                   *)
(* A column name is a sequence of one-character strings.                   *)
(***************************************************************************)
EXTENDS Integers, Sequences, FiniteSets, TLC

VARIABLES pc, run, csv, df, orig_shape, null_cols, dup_count, constant_cols,
          outlier_count, correction_summary, col_i, attempts, log

vars == <<pc, run, csv, df, orig_shape, null_cols, dup_count, constant_cols,
          outlier_count, correction_summary, col_i, attempts, log>>

(***************************************************************************)
(* Bounds of the model.                                                    *)
(***************************************************************************)
MaxRows == 2
BulkLen == 10
MaxTail == 2
MaxNameLen == 3
MaxRuns == 2

Range(s) == {s[i] : i \in 1..Len(s)}

SeqsUpTo(S, n) == UNION {[1..k -> S] : k \in 0..n}

(***************************************************************************)
(* Raw CSV fields and DataFrame cells.                                     *)
(***************************************************************************)
EmptyTok == [t |-> "empty", n |-> 0, s |-> "", fl |-> FALSE]
NumTok(v) == [t |-> "num", n |-> 2 * v, s |-> "", fl |-> FALSE]
TextTok(str) == [t |-> "text", n |-> 0, s |-> str, fl |-> FALSE]

NaN == [k |-> "nan", n |-> 0, s |-> ""]
Num(x) == [k |-> "num", n |-> x, s |-> ""]
Str(str) == [k |-> "str", n |-> 0, s |-> str]
NumStr(x, lit) == [k |-> "numstr", n |-> x, s |-> lit]
Dt(d) == [k |-> "dt", n |-> d, s |-> ""]

IsNull(c) == c.k = "nan"

(***************************************************************************)
(* Date strings: the day each one denotes and the format it is written in. *)
(* "01/02/2020" and "1/2/2020" are two spellings of the same day.          *)
(***************************************************************************)
DateStrings == {"01/02/2020", "1/2/2020", "01/03/2020", "2020-01-02", "2020-01-03"}

DateOf(str) ==
    CASE str = "01/02/2020" -> 2
      [] str = "1/2/2020" -> 2
      [] str = "01/03/2020" -> 3
      [] str = "2020-01-02" -> 2
      [] str = "2020-01-03" -> 3
      [] OTHER -> 0

DateFormat(str) == IF str \in {"2020-01-02", "2020-01-03"} THEN "iso" ELSE "mdy"

IsoDate(d) == IF d = 2 THEN "2020-01-02" ELSE "2020-01-03"

(***************************************************************************)
(* pd.read_csv: header handling and per-column type inference.             *)
(***************************************************************************)
Unnamed(j) == <<"U", "n", "n", "a", "m", "e", "d", ":", " ">> \o <<IF j = 1 THEN "0" ELSE "1">>

Earlier(names, j) == Cardinality({i \in 1..(j - 1) : names[i] = names[j]})

HeaderName(names, j) ==
    IF names[j] = <<>> THEN Unnamed(j)
    ELSE IF Earlier(names, j) > 0 THEN names[j] \o <<".", "1">>
    ELSE names[j]

AllNumeric(toks) == \A i \in 1..Len(toks) : toks[i].t \in {"num", "empty"}

InferDtype(toks) ==
    IF Len(toks) = 0 THEN "object"
    ELSE IF AllNumeric(toks)
         THEN IF \E i \in 1..Len(toks) : toks[i].t = "empty" \/ toks[i].fl
              THEN "float64" ELSE "int64"
    ELSE "object"

ParseField(tok, dtype) ==
    IF tok.t = "empty" THEN NaN
    ELSE IF tok.t = "num"
         THEN IF dtype = "object"
              THEN NumStr(tok.n, IF tok.fl THEN "f" ELSE "")
              ELSE Num(tok.n)
    ELSE Str(tok.s)

ReadColumn(names, j, toks) ==
    LET dt == InferDtype(toks)
    IN [name |-> HeaderName(names, j), dtype |-> dt,
        cells |-> [i \in 1..Len(toks) |-> ParseField(toks[i], dt)]]

ReadCsv(c) ==
    [nrows |-> c.nrows,
     cols |-> [j \in 1..Len(c.header) |-> ReadColumn(c.header, j, c.cols[j])]]

(***************************************************************************)
(* df.to_csv(index=False): the download of line 164.                       *)
(***************************************************************************)
RenderCell(c, dtype) ==
    CASE c.k = "nan" -> EmptyTok
      [] c.k = "num" -> [t |-> "num", n |-> c.n, s |-> "", fl |-> (dtype = "float64")]
      [] c.k = "numstr" -> [t |-> "num", n |-> c.n, s |-> "", fl |-> (c.s = "f")]
      [] c.k = "dt" -> TextTok(IsoDate(c.n))
      [] OTHER -> TextTok(c.s)

ToCsv(d) ==
    [header |-> [j \in 1..Len(d.cols) |-> d.cols[j].name],
     nrows |-> d.nrows,
     cols |-> [j \in 1..Len(d.cols) |->
                 [i \in 1..d.nrows |-> RenderCell(d.cols[j].cells[i], d.cols[j].dtype)]]]

(***************************************************************************)
(* Row and column selection.                                               *)
(***************************************************************************)
Row(d, i) == [j \in 1..Len(d.cols) |-> d.cols[j].cells[i]]

Indices(n, keep) == SelectSeq([i \in 1..n |-> i], LAMBDA i : i \in keep)

KeepRows(d, keep) ==
    LET idx == Indices(d.nrows, keep)
    IN [nrows |-> Len(idx),
        cols |-> [j \in 1..Len(d.cols) |->
                    [d.cols[j] EXCEPT !.cells = [k \in 1..Len(idx) |-> d.cols[j].cells[idx[k]]]]]]

KeepColumns(d, keep) ==
    LET idx == Indices(Len(d.cols), keep)
    IN [nrows |-> d.nrows, cols |-> [k \in 1..Len(idx) |-> d.cols[idx[k]]]]

(***************************************************************************)
(* Null Value Handling (lines 46-62).                                      *)
(***************************************************************************)
HasNull(col) == \E i \in 1..Len(col.cells) : IsNull(col.cells[i])

NullCols(d) == {j \in 1..Len(d.cols) : HasNull(d.cols[j])}

Present(cells) == SelectSeq(cells, LAMBDA c : ~IsNull(c))

Kth(vals, p) ==
    CHOOSE v \in Range(vals) :
        /\ Cardinality({i \in 1..Len(vals) : vals[i].n < v.n}) < p
        /\ p <= Cardinality({i \in 1..Len(vals) : vals[i].n <= v.n})

\* Series.median(): skips the missing cells; NaN when nothing is left.
Median(cells) ==
    LET vals == Present(cells)
        m == Len(vals)
    IN IF m = 0 THEN NaN
       ELSE IF m % 2 = 1 THEN Num(Kth(vals, (m + 1) \div 2).n)
       ELSE Num((Kth(vals, m \div 2).n + Kth(vals, m \div 2 + 1).n) \div 2)

\* Lines 57-60.  df[col].fillna(..., inplace=True) is taken to fill df itself,
\* as it does in the pandas releases without copy-on-write.
FillValue(col) == IF col.dtype = "object" THEN Str("Unknown") ELSE Median(col.cells)

FillColumn(col) ==
    LET fill == FillValue(col)
    IN [col EXCEPT !.cells = [i \in 1..Len(col.cells) |->
                                IF IsNull(col.cells[i]) THEN fill ELSE col.cells[i]]]

FillNulls(d) ==
    [d EXCEPT !.cols = [j \in 1..Len(d.cols) |->
                          IF HasNull(d.cols[j]) THEN FillColumn(d.cols[j]) ELSE d.cols[j]]]

(***************************************************************************)
(* Duplicate Removal (lines 64-72).                                        *)
(***************************************************************************)
\* A slip: duplicated(keep=False) marks every member of a group of equal rows.
DuplicatedKeepFalse(d) ==
    {i \in 1..d.nrows : \E h \in 1..d.nrows : h # i /\ Row(d, h) = Row(d, i)}

\* df.duplicated(): the rows equal to an earlier row (NaN equals NaN).
Duplicated(d) == {i \in 1..d.nrows : \E h \in 1..(i - 1) : Row(d, h) = Row(d, i)}

\* df.drop_duplicates(): the first occurrence of every row is kept.
DropDuplicates(d) ==
    KeepRows(d, {i \in 1..d.nrows : \A h \in 1..(i - 1) : Row(d, h) # Row(d, i)})

(***************************************************************************)
(* Constant Columns Removal (lines 74-82).                                 *)
(***************************************************************************)
NUnique(col) == Cardinality({c \in Range(col.cells) : ~IsNull(c)})

ConstantCols(d) == {j \in 1..Len(d.cols) : NUnique(d.cols[j]) <= 1}

DropConstant(d) == KeepColumns(d, (1..Len(d.cols)) \ ConstantCols(d))

(***************************************************************************)
(* Column Name Cleaning (line 85):                                         *)
(*   .str.strip().str.lower().str.replace(' ', '_')                        *)
(*   .str.replace(r'[^\w\s]', '', regex=True)                              *)
(***************************************************************************)
IsSpaceCh(c) == c \in {" ", "\t"}

IsWordCh(c) == c \in {"a", "b", "u", "n", "m", "e", "d", "A", "B", "U", "0", "1", "_"}

LowerCh(c) ==
    CASE c = "A" -> "a"
      [] c = "B" -> "b"
      [] c = "U" -> "u"
      [] OTHER -> c

RECURSIVE LStrip(_)
LStrip(s) == IF s # <<>> /\ IsSpaceCh(Head(s)) THEN LStrip(Tail(s)) ELSE s

RECURSIVE RStrip(_)
RStrip(s) ==
    IF s # <<>> /\ IsSpaceCh(s[Len(s)]) THEN RStrip(SubSeq(s, 1, Len(s) - 1)) ELSE s

Strip(s) == RStrip(LStrip(s))

Lower(s) == [i \in 1..Len(s) |-> LowerCh(s[i])]

ReplaceSpace(s) == [i \in 1..Len(s) |-> IF s[i] = " " THEN "_" ELSE s[i]]

RemovePunct(s) == SelectSeq(s, LAMBDA c : IsWordCh(c) \/ IsSpaceCh(c))

CleanName(s) == RemovePunct(ReplaceSpace(Lower(Strip(s))))

CleanNames(d) ==
    [d EXCEPT !.cols = [j \in 1..Len(d.cols) |->
                          [d.cols[j] EXCEPT !.name = CleanName(d.cols[j].name)]]]

(***************************************************************************)
(* Outlier Detection (lines 88-100): scipy.stats.zscore over the numeric   *)
(* columns (population standard deviation), |z| > 3 in any column.         *)
(*   |v - S/n| > 3 * sqrt(Q/n - (S/n)^2)                                   *)
(*     <=>  (n*v - S)^2 > 9 * (n*Q - S^2)                                  *)
(* with S the sum and Q the sum of squares of the column.  A column that   *)
(* holds a NaN has NaN z-scores throughout, and NaN > 3 is False.          *)
(***************************************************************************)
ZThreshold == 3

RECURSIVE SumN(_)
SumN(cells) == IF cells = <<>> THEN 0 ELSE Head(cells).n + SumN(Tail(cells))

RECURSIVE SumSq(_)
SumSq(cells) == IF cells = <<>> THEN 0 ELSE Head(cells).n * Head(cells).n + SumSq(Tail(cells))

\* A slip: select_dtypes left out, every column is scored.
NumColsAll(d) == 1..Len(d.cols)

NumCols(d) == {j \in 1..Len(d.cols) : d.cols[j].dtype \in {"int64", "float64"}}

\* |z| > 3 for value v against the column `cells`.
Beyond(v, cells) ==
    LET n == Len(cells)
        S == SumN(cells)
        Q == SumSq(cells)
    IN (n * v - S) * (n * v - S) > ZThreshold * ZThreshold * (n * Q - S * S)

ZOut(col, i) == ~HasNull(col) /\ Beyond(col.cells[i].n, col.cells)

\* A slip: .all(axis=1) for .any(axis=1).
OutliersAllColumns(d) ==
    {i \in 1..d.nrows : NumCols(d) # {} /\ \A j \in NumCols(d) : ZOut(d.cols[j], i)}

Outliers(d) == {i \in 1..d.nrows : \E j \in NumCols(d) : ZOut(d.cols[j], i)}

RemoveOutliers(d) == KeepRows(d, (1..d.nrows) \ Outliers(d))

(***************************************************************************)
(* Auto Data Type Detection and Correction (lines 102-125), one column.    *)
(***************************************************************************)
\* df[col] is a DataFrame, not a Series, when the name occurs twice:
\* df[col].dtype (line 107) then raises AttributeError outside any try.
NameCollides(d, j) == \E i \in 1..Len(d.cols) : i # j /\ d.cols[i].name = d.cols[j].name

\* pd.to_numeric raises unless every cell is a number or a numeric string.
NumericParses(col) == \A i \in 1..Len(col.cells) : col.cells[i].k \in {"numstr", "num", "nan"}

ToNumeric(col) ==
    [col EXCEPT !.dtype = IF \E i \in 1..Len(col.cells) :
                                IsNull(col.cells[i]) \/ col.cells[i].s = "f"
                          THEN "float64" ELSE "int64",
                !.cells = [i \in 1..Len(col.cells) |->
                             IF IsNull(col.cells[i]) THEN NaN ELSE Num(col.cells[i].n)]]

IsDateCell(c) == c.k = "str" /\ c.s \in DateStrings

\* A slip: errors='coerce', one date string is enough.
DatetimeParsesAny(col) == \E i \in 1..Len(col.cells) : IsDateCell(col.cells[i])

\* pd.to_datetime raises unless every cell is a date string, all in the format
\* of the first one.
DatetimeParses(col) ==
    /\ Len(col.cells) > 0
    /\ \A i \in 1..Len(col.cells) :
         /\ IsDateCell(col.cells[i])
         /\ DateFormat(col.cells[i].s) = DateFormat(col.cells[1].s)

ToDatetime(col) ==
    [col EXCEPT !.dtype = "datetime64",
                !.cells = [i \in 1..Len(col.cells) |-> Dt(DateOf(col.cells[i].s))]]

\* str(value) holds a letter: 'nan' within the value bounds of the model.
RendersAlpha(c) == IsNull(c)

AsTypeStr(col) ==
    [col EXCEPT !.dtype = "object",
                !.cells = [i \in 1..Len(col.cells) |->
                             IF IsNull(col.cells[i]) THEN Str("nan")
                             ELSE NumStr(col.cells[i].n,
                                         IF col.dtype = "float64" THEN "f" ELSE "")]]

\* The parse attempts made on a text column, in the order the code makes them.
ParseOrder == <<"numeric", "datetime">>

Parses(kind, col) == IF kind = "numeric" THEN NumericParses(col) ELSE DatetimeParses(col)

Convert(kind, col) == IF kind = "numeric" THEN ToNumeric(col) ELSE ToDatetime(col)

ConversionLabel(kind) ==
    IF kind = "numeric" THEN "Converted to Numeric" ELSE "Converted to Datetime"

Entry(col, new, label) ==
    [column |-> col.name, old |-> col.dtype, new |-> new.dtype, conversion |-> label]

\* The result of one pass of the loop body on a column: the column, the
\* correction entries appended and the parse attempts made.
CorrectColumn(col) ==
    IF col.dtype = "object"
    THEN IF Parses(ParseOrder[1], col)
         THEN [col |-> Convert(ParseOrder[1], col),
               entries |-> <<Entry(col, Convert(ParseOrder[1], col),
                                   ConversionLabel(ParseOrder[1]))>>,
               attempts |-> <<ParseOrder[1]>>]
         ELSE IF Parses(ParseOrder[2], col)
         THEN [col |-> Convert(ParseOrder[2], col),
               entries |-> <<Entry(col, Convert(ParseOrder[2], col),
                                   ConversionLabel(ParseOrder[2]))>>,
               attempts |-> ParseOrder]
         ELSE [col |-> col, entries |-> <<>>, attempts |-> ParseOrder]
    ELSE IF col.dtype \in {"int64", "float64"}
            /\ \E i \in 1..Len(col.cells) : RendersAlpha(col.cells[i])
    THEN [col |-> AsTypeStr(col),
          entries |-> <<Entry(col, AsTypeStr(col), "Converted to Object")>>,
          attempts |-> <<>>]
    ELSE [col |-> col, entries |-> <<>>, attempts |-> <<>>]

(***************************************************************************)
(* The uploads the model draws from.                                       *)
(*   SmallCsvs    every table of up to MaxRows rows and one or two columns *)
(*                of numeric, text or date fields;                         *)
(*   OutlierCsvs  a block of BulkLen distinct ordinary rows followed by up *)
(*                to MaxTail free rows (|z| > 3 needs at least 11 rows);   *)
(*   NameCsvs     a fixed two-row table under every header name of up to   *)
(*                MaxNameLen characters, beside a column named "a".        *)
(***************************************************************************)
NameA == <<"a">>
NameB == <<"b">>

NumericFields == {EmptyTok, NumTok(0), NumTok(1)}
TextFields == {EmptyTok, TextTok("x"), NumTok(0)}
DateFields == {EmptyTok, TextTok("01/02/2020"), TextTok("1/2/2020"), TextTok("01/03/2020")}

SmallColumns(n) == [1..n -> NumericFields] \cup [1..n -> TextFields] \cup [1..n -> DateFields]

SmallCsvs ==
    UNION {
        {[header |-> <<NameA>>, nrows |-> n, cols |-> <<c1>>] : c1 \in SmallColumns(n)}
        \cup
        {[header |-> <<NameA, NameB>>, nrows |-> n, cols |-> <<c1, c2>>] :
            c1 \in SmallColumns(n), c2 \in SmallColumns(n)}
        : n \in 0..MaxRows}

RampBulk == [i \in 1..BulkLen |-> NumTok(i - 1)]
AltBulk == [i \in 1..BulkLen |-> NumTok((i - 1) % 2)]
TextBulk == [i \in 1..BulkLen |-> TextTok("x")]

RampTail == {NumTok(0), NumTok(40), NumTok(400), TextTok("x")}
SideTail == {NumTok(0), TextTok("x"), TextTok("y")}

OutlierCsvs ==
    UNION {
        {[header |-> <<NameA>>, nrows |-> BulkLen + k, cols |-> <<RampBulk \o t1>>] :
            t1 \in [1..k -> RampTail]}
        \cup
        {[header |-> <<NameA, NameB>>, nrows |-> BulkLen + k,
          cols |-> <<RampBulk \o t1, b2 \o t2>>] :
            t1 \in [1..k -> RampTail], t2 \in [1..k -> SideTail], b2 \in {AltBulk, TextBulk}}
        : k \in 0..MaxTail}

NameChars == {"a", "A", "1", "_", " ", "\t", "!"}

NameCsvs ==
    {[header |-> <<nm, NameA>>, nrows |-> 2,
      cols |-> <<<<NumTok(0), NumTok(1)>>, <<TextTok("x"), TextTok("y")>>>>] :
        nm \in SeqsUpTo(NameChars, MaxNameLen)}

(***************************************************************************)
(* The run.                                                                *)
(***************************************************************************)
Stages == <<"null", "dup", "const", "norm", "outlier", "type">>

StageIndex(s) == CHOOSE i \in 1..Len(Stages) : Stages[i] = s

\* A slip: the Constant-Column Pruner placed before the Duplicate Remover.
NextStageSwapped(s) ==
    CASE s = "null" -> "const"
      [] s = "const" -> "dup"
      [] s = "dup" -> "norm"
      [] s = "norm" -> "outlier"
      [] s = "outlier" -> "type"
      [] OTHER -> "done"

\* The program order of the module body: the stage that follows stage s.
NextStage(s) == IF StageIndex(s) = Len(Stages) THEN "done" ELSE Stages[StageIndex(s) + 1]

\* Lines 37-44: the upload is read and the original shape shown.
Load(c, r) ==
    /\ csv = c
    /\ df = ReadCsv(c)
    /\ orig_shape = <<c.nrows, Len(c.header)>>
    /\ run = r
    /\ pc = Stages[1]
    /\ null_cols = <<>>
    /\ dup_count = 0
    /\ constant_cols = <<>>
    /\ outlier_count = 0
    /\ correction_summary = <<>>
    /\ col_i = 1
    /\ attempts = <<>>
    /\ log = <<>>

InitOn(uploads) == \E c \in uploads : Load(c, 1)

Init == InitOn(SmallCsvs \cup OutlierCsvs \cup NameCsvs)

NullHandling ==
    /\ pc = "null"
    /\ null_cols' = [k \in 1..Len(Indices(Len(df.cols), NullCols(df))) |->
                       df.cols[Indices(Len(df.cols), NullCols(df))[k]].name]
    /\ df' = FillNulls(df)
    /\ pc' = NextStage("null")
    /\ log' = Append(log, "null")
    /\ UNCHANGED <<run, csv, orig_shape, dup_count, constant_cols, outlier_count,
                   correction_summary, col_i, attempts>>

DuplicateRemoval ==
    /\ pc = "dup"
    /\ dup_count' = Cardinality(Duplicated(df))
    /\ df' = DropDuplicates(df)
    /\ pc' = NextStage("dup")
    /\ log' = Append(log, "dup")
    /\ UNCHANGED <<run, csv, orig_shape, null_cols, constant_cols, outlier_count,
                   correction_summary, col_i, attempts>>

ConstantColumns ==
    /\ pc = "const"
    /\ constant_cols' = [k \in 1..Len(Indices(Len(df.cols), ConstantCols(df))) |->
                           df.cols[Indices(Len(df.cols), ConstantCols(df))[k]].name]
    /\ df' = DropConstant(df)
    /\ pc' = NextStage("const")
    /\ log' = Append(log, "const")
    /\ UNCHANGED <<run, csv, orig_shape, null_cols, dup_count, outlier_count,
                   correction_summary, col_i, attempts>>

ColumnNameCleaning ==
    /\ pc = "norm"
    /\ df' = CleanNames(df)
    /\ pc' = NextStage("norm")
    /\ log' = Append(log, "norm")
    /\ UNCHANGED <<run, csv, orig_shape, null_cols, dup_count, constant_cols,
                   outlier_count, correction_summary, col_i, attempts>>

OutlierDetection ==
    /\ pc = "outlier"
    /\ outlier_count' = Cardinality(Outliers(df))
    /\ df' = RemoveOutliers(df)
    /\ pc' = NextStage("outlier")
    /\ log' = Append(log, "outlier")
    /\ UNCHANGED <<run, csv, orig_shape, null_cols, dup_count, constant_cols,
                   correction_summary, col_i, attempts>>

\* One pass of the loop of line 106, on column col_i.
TypeCorrection ==
    /\ pc = "type"
    /\ col_i <= Len(df.cols)
    /\ IF NameCollides(df, col_i)
       THEN /\ pc' = "crashed"
            /\ UNCHANGED <<df, correction_summary, col_i, attempts>>
       ELSE /\ df' = [df EXCEPT !.cols[col_i] = CorrectColumn(df.cols[col_i]).col]
            /\ correction_summary' =
                   correction_summary \o CorrectColumn(df.cols[col_i]).entries
            /\ attempts' = CorrectColumn(df.cols[col_i]).attempts
            /\ col_i' = col_i + 1
            /\ pc' = pc
    /\ UNCHANGED <<run, csv, orig_shape, null_cols, dup_count, constant_cols,
                   outlier_count, log>>

\* Lines 127-160: the loop has ended; the summaries are shown.
FinalSummary ==
    /\ pc = "type"
    /\ col_i > Len(df.cols)
    /\ pc' = NextStage("type")
    /\ log' = Append(log, "type")
    /\ UNCHANGED <<run, csv, df, orig_shape, null_cols, dup_count, constant_cols,
                   outlier_count, correction_summary, col_i, attempts>>

\* Lines 162-171 and 35-40: the cleaned CSV is downloaded and uploaded again.
Reupload ==
    /\ pc = "done"
    /\ run < MaxRuns
    /\ Len(df.cols) >= 1
    /\ csv' = ToCsv(df)
    /\ df' = ReadCsv(ToCsv(df))
    /\ orig_shape' = <<df.nrows, Len(df.cols)>>
    /\ run' = run + 1
    /\ pc' = Stages[1]
    /\ null_cols' = <<>>
    /\ dup_count' = 0
    /\ constant_cols' = <<>>
    /\ outlier_count' = 0
    /\ correction_summary' = <<>>
    /\ col_i' = 1
    /\ attempts' = <<>>
    /\ log' = <<>>

Next ==
    \/ NullHandling
    \/ DuplicateRemoval
    \/ ConstantColumns
    \/ ColumnNameCleaning
    \/ OutlierDetection
    \/ TypeCorrection
    \/ FinalSummary
    \/ Reupload

Spec == Init /\ [][Next]_vars

InitSmall == InitOn(SmallCsvs)
SpecSmall == InitSmall /\ [][Next]_vars

InitOutlier == InitOn(OutlierCsvs)
SpecOutlier == InitOutlier /\ [][Next]_vars

InitNames == InitOn(NameCsvs)
SpecNames == InitNames /\ [][Next]_vars

(***************************************************************************)
(* Properties.                                                             *)
(***************************************************************************)
Finished(k) == Len(log) >= k

NoNulls(d) == \A j \in 1..Len(d.cols) : ~HasNull(d.cols[j])

DistinctRows(d) == \A i \in 1..d.nrows : \A h \in 1..(i - 1) : Row(d, h) # Row(d, i)

NoNumericColumn(d) == \A j \in 1..Len(d.cols) : d.cols[j].dtype \notin {"int64", "float64"}

SomeCollision(d) == \E j \in 1..Len(d.cols) : NameCollides(d, j)

C2_NoNullAfterNullHandler == Finished(1) => NoNulls(df)

\* C3: once the Duplicate Remover has finished, no two rows are identical
\* across all columns, in every later state of the run.
C3_NoDuplicateRows == Finished(2) => DistinctRows(df)

\* C4: once the Constant-Column Pruner has finished, every remaining column
\* has at least 2 distinct values, in every later state of the run.
C4_NoConstantColumn ==
    Finished(3) => \A j \in 1..Len(df.cols) : NUnique(df.cols[j]) >= 2

\* C5: a second run, on the cleaned output of the first, fills no null,
\* removes no duplicate, finds no constant column, removes no outlier and
\* returns a dataset equal to its input.
C5_SecondRunChangesNothing ==
    (run = 2 /\ pc = "done") =>
        /\ null_cols = <<>>
        /\ dup_count = 0
        /\ constant_cols = <<>>
        /\ outlier_count = 0
        /\ ToCsv(df) = csv

C7_CountsMatchShape ==
    /\ df.nrows <= orig_shape[1]
    /\ Len(df.cols) <= orig_shape[2]
    /\ pc = "done" =>
         /\ df.nrows = orig_shape[1] - dup_count - outlier_count
         /\ Len(df.cols) = orig_shape[2] - Len(constant_cols)

\* C7 witness: a finished run that removed duplicates, constant columns and
\* outliers.
C7_AllCountsPositive ==
    pc = "done" /\ dup_count > 0 /\ outlier_count > 0 /\ Len(constant_cols) > 0

\* C8 as stated: with at least 2 numeric columns, every value retained by the
\* Outlier Filter is within 3 standard deviations of the mean of its column
\* in the filtered dataset.
C8_BoundOnFilteredData ==
    [][(pc = "outlier" /\ Cardinality(NumCols(df)) >= 2)
         => \A j \in NumCols(df) : \A i \in 1..df'.nrows :
              ~Beyond(df'.cols[j].cells[i].n, df'.cols[j].cells)]_vars

\* C8 amended: with at least 2 numeric columns, every value retained by the
\* Outlier Filter is within 3 standard deviations of the mean of its column
\* in the dataset as it entered the filter (the rows are scored once).
C8_BoundOnUnfilteredData ==
    [][(pc = "outlier" /\ Cardinality(NumCols(df)) >= 2)
         => \A j \in NumCols(df) : \A i \in 1..df'.nrows :
              ~Beyond(df'.cols[j].cells[i].n, df.cols[j].cells)]_vars

\* C8 witness: the filter has just removed a row from a table with at least
\* 2 numeric columns.
C8_OutlierRemoved ==
    /\ pc = "type" /\ col_i = 1 /\ log = SubSeq(Stages, 1, 5)
    /\ outlier_count > 0 /\ Cardinality(NumCols(df)) >= 2

\* C9: the name the Column Normalizer gives holds only [a-z0-9_], has one
\* underscore for each internal whitespace run of the input, and has no
\* leading or trailing underscore that stands for whitespace next to
\* stripped punctuation.
NameLetters == {"a", "b", "u", "n", "m", "e", "d", "0", "1", "_"}

Underscores(s) == Len(SelectSeq(s, LAMBDA c : c = "_"))

WhitespaceRuns(s) ==
    Cardinality({i \in 1..Len(s) : IsSpaceCh(s[i]) /\ (i = 1 \/ ~IsSpaceCh(s[i - 1]))})

\* The characters of the input that survive, before any is rewritten.
Kept(s) == SelectSeq(Strip(s), LAMBDA c : IsWordCh(c) \/ IsSpaceCh(c))

NameInvariant(in, out) ==
    /\ \A i \in 1..Len(out) : out[i] \in NameLetters
    /\ Underscores(out) = Underscores(in) + WhitespaceRuns(Strip(in))
    /\ (out # <<>> /\ out[1] = "_") => Kept(in)[1] = "_"
    /\ (out # <<>> /\ out[Len(out)] = "_") => Kept(in)[Len(Kept(in))] = "_"

C9_NameInvariant ==
    [][pc = "norm" => \A j \in 1..Len(df.cols) :
                         NameInvariant(df.cols[j].name, df'.cols[j].name)]_vars

\* C10: on a text column the numeric parse is attempted first and the
\* date/time parse only if it failed; the column is retyped, with exactly
\* one entry, only if every value parses under the attempted type; when both
\* fail, the column is unchanged, nothing is recorded and the loop goes on.
EveryValueIs(kind, col) ==
    \A i \in 1..Len(col.cells) :
        \/ IsNull(col.cells[i])
        \/ IF kind = "numeric" THEN col.cells[i].k = "numstr"
           ELSE col.cells[i].k = "str" /\ DateOf(col.cells[i].s) # 0

====
